---------------------------- MODULE Spec2Model ----------------------------
(***************************************************************************)
(* Model of the sequence analytics engine of the 3n+1 visualisation:       *)
(*   CollatzAlgorithm (src/js/algorithm.js): generateSequence and          *)
(*   calculateStatistics;                                                  *)
(*   DataManager (dataManager.js): the bounded store of analysed           *)
(*   sequences, its id counter and its event listeners;                    *)
(*   ComparisonAnalyzer (src/js/comparisonAnalyzer.js): pattern tags,      *)
(*   cycles, convergence, correlations, anomalies and the report.          *)
(*                                                                         *)
(* Numbers are JavaScript numbers in the source.  The model keeps them as  *)
(* exact integers: every start it draws has a trajectory far below 2^53,   *)
(* where the source's arithmetic is exact.  A call argument that may be a  *)
(* non-integer number is a fraction [num, den].                            *)
(***************************************************************************)
EXTENDS Integers, Sequences, FiniteSets, TLC

(***************************************************************************)
(* Bounds of the model.                                                    *)
(***************************************************************************)
\* largest start value handed to generateSequence
MaxStart == 100
\* how far below zero the numerators handed to generateSequence go
MaxBelowZero == 3
\* the iteration cap of generateSequence, 1000000 in the source, scaled to
\* the smallest value that still lets start 27 run its 111 steps
maxIterations == 111
\* how many ids the store's counter hands out
MaxId == 11
\* how many calls besides plain addSequence calls a run makes
MaxCalls == 2
\* the largest reading of the clock
MaxTime == 1
\* the records handed to the ComparisonAnalyzer in one run
MaxSupplied == 4
\* the longest sequence handed to analyzeConvergence on its own
MaxLength == 4
\* the largest element of such a sequence
MaxElement == 3
\* the longest sequence handed to findCycles and detectPatterns on their own
MaxScanned == 6

\* DataManager.maxSequences
maxSequences == 10

VARIABLES
    \* ---- one call of CollatzAlgorithm.generateSequence ----
    gpc,            \* "idle" | "loop" | "returned" | "threw"
    startNumber,    \* the argument of the call in progress, a fraction
    sequence,       \* const sequence
    current,        \* let current
    iterations,     \* let iterations
    warned,         \* console.warn was called by this call
    \* ---- the last call of CollatzAlgorithm.calculateStatistics ----
    statsArg,       \* its argument
    statsOut,       \* what it returned, or that it threw
    \* ---- the DataManager ----
    sequences,          \* this.sequences
    currentSequenceId,  \* this.currentSequenceId
    eventListeners,     \* this.eventListeners: event -> callbacks in order
    now,                \* the clock Date.now() reads
    \* ---- what a caller and the callbacks see of the DataManager ----
    lastCall,           \* the last call made and its outcome
    notified,           \* the callbacks the last call invoked, in order
    issued,             \* every id generateId has returned so far
    calls,              \* the calls counted against MaxCalls
    \* ---- the ComparisonAnalyzer ----
    analyzerSequences,  \* this.sequences of the analyzer
    analyzerPatterns,   \* this.patterns: the catalog, empty before init()
    analyzerStatistics, \* this.statistics
    \* ---- what a caller sees of the ComparisonAnalyzer ----
    supplied,           \* the records handed to the analyzer so far
    lastQuery           \* the last call made on the analyzer and its result

storeVars == <<sequences, currentSequenceId, eventListeners, now,
               lastCall, notified, issued, calls>>

analyzerVars == <<analyzerSequences, analyzerPatterns, analyzerStatistics,
                  supplied, lastQuery>>

genVars == <<gpc, startNumber, sequence, current, iterations, warned,
             statsArg, statsOut>>

-----------------------------------------------------------------------------
(***************************************************************************)
(* Helpers over sequences of numbers.                                      *)
(***************************************************************************)
Last(s) == s[Len(s)]

\* Math.min(...sequence)
MinOf(s) ==
    CHOOSE m \in { s[i] : i \in 1..Len(s) } : \A i \in 1..Len(s) : m <= s[i]

\* Math.min written where Math.max was meant
MaxOfAsMin(s) == MinOf(s)

\* Math.max(...sequence)
MaxOf(s) ==
    CHOOSE m \in { s[i] : i \in 1..Len(s) } : \A i \in 1..Len(s) : m >= s[i]

RECURSIVE SumRange(_, _, _)
\* the sum of s[lo..hi], by halves
SumRange(s, lo, hi) ==
    IF lo > hi THEN 0
    ELSE IF lo = hi THEN s[lo]
    ELSE LET mid == (lo + hi) \div 2
         IN  SumRange(s, lo, mid) + SumRange(s, mid + 1, hi)

\* sequence.reduce((sum, num) => sum + num, 0)
SumOf(s) == SumRange(s, 1, Len(s))

\* sequence.indexOf(v), zero-based, -1 when absent
IndexOf(s, v) ==
    IF \E i \in 1..Len(s) : s[i] = v
    THEN (CHOOSE i \in 1..Len(s) : s[i] = v /\ \A j \in 1..(i-1) : s[j] # v) - 1
    ELSE -1

-----------------------------------------------------------------------------
(***************************************************************************)
(* CollatzAlgorithm.generateSequence                                       *)
(***************************************************************************)
\* a JavaScript number given as the fraction num/den, den > 0
Fraction(n, d) == [num |-> n, den |-> d]

\* Number.isInteger(x)
IsInteger(x) == x.num % x.den = 0

\* a guard that lets zero through: x < 0
LessThanZero(x) == x.num < 0

\* x < 1
LessThanOne(x) == x.num < x.den

\* the guard of generateSequence: does it throw for this argument
RejectsStart(x) == ~IsInteger(x) \/ LessThanOne(x)

\* a step that drops the "+ 1" of the odd branch
NextNumberNoPlusOne(n) == IF n % 2 = 0 THEN n \div 2 ELSE 3 * n

\* the body of the while loop: the next element after current
NextNumber(n) == IF n % 2 = 0 THEN n \div 2 ELSE 3 * n + 1

\* a loop that forgets its iteration cap
LoopConditionNoCap(cur, iter) == cur # 1

\* a loop that tests its condition only after the first iteration
LoopConditionAtLeastOnce(cur, iter) ==
    iter = 0 \/ (cur # 1 /\ iter < maxIterations)

\* the condition of the while loop
LoopCondition(cur, iter) == cur # 1 /\ iter < maxIterations

\* the condition of the warning after the loop
WarnCondition(iter) == iter >= maxIterations

\* the arguments the model hands to generateSequence
StartInputs == { Fraction(n, d) : n \in (-MaxBelowZero)..MaxStart, d \in {1, 2} }

\* generateSequence is entered: the guard throws or the locals are set up
GenerateSequenceCall(x) ==
    /\ gpc \in {"idle", "returned", "threw"}
    /\ startNumber' = x
    /\ IF RejectsStart(x)
       THEN /\ gpc' = "threw"
            /\ sequence' = <<>>
            /\ current' = 0
       ELSE /\ gpc' = "loop"
            /\ sequence' = << x.num \div x.den >>
            /\ current' = x.num \div x.den
    /\ iterations' = 0
    /\ warned' = FALSE
    /\ statsArg' = [isArray |-> FALSE, items |-> <<>>]
    /\ statsOut' = [status |-> "none"]
    /\ UNCHANGED <<storeVars, analyzerVars>>

\* one iteration of the while loop
GenerateSequenceLoop ==
    /\ gpc = "loop"
    /\ LoopCondition(current, iterations)
    /\ current' = NextNumber(current)
    /\ sequence' = Append(sequence, NextNumber(current))
    /\ iterations' = iterations + 1
    /\ UNCHANGED <<gpc, startNumber, warned, statsArg, statsOut>>
    /\ UNCHANGED <<storeVars, analyzerVars>>

\* the loop is left: the warning is decided and the sequence returned
GenerateSequenceReturn ==
    /\ gpc = "loop"
    /\ ~LoopCondition(current, iterations)
    /\ warned' = WarnCondition(iterations)
    /\ gpc' = "returned"
    /\ UNCHANGED <<startNumber, sequence, current, iterations, statsArg, statsOut>>
    /\ UNCHANGED <<storeVars, analyzerVars>>

RECURSIVE RunLoop(_, _, _)
\* the while loop run to its end, as one value
RunLoop(seq, cur, iter) ==
    IF LoopCondition(cur, iter)
    THEN RunLoop(Append(seq, NextNumber(cur)), NextNumber(cur), iter + 1)
    ELSE seq

\* generateSequence(n) for an accepted start n, as one value
generateSequence(n) == RunLoop(<<n>>, n, 0)

-----------------------------------------------------------------------------
(***************************************************************************)
(* CollatzAlgorithm.calculateStatistics                                    *)
(***************************************************************************)
\* an argument of calculateStatistics: an array, or something that is not
ArrayOf(s) == [isArray |-> TRUE, items |-> s]
NotArray(s) == [isArray |-> FALSE, items |-> s]

\* a guard that forgets Array.isArray
RejectsEmptyOnly(a) == Len(a.items) = 0

\* the guard of calculateStatistics: does it throw for this argument
RejectsSequence(a) == ~a.isArray \/ Len(a.items) = 0

\* the complexity loop: interior strict local extrema
DirectionChanges(s) ==
    Cardinality({ i \in 2..(Len(s) - 1) :
        \/ (s[i] > s[i-1] /\ s[i] > s[i+1])
        \/ (s[i] < s[i-1] /\ s[i] < s[i+1]) })

\* a comparison slip: >= for ===
HasReachedOneLoose(s) == s[Len(s)] >= 1

\* hasReachedOne: sequence[sequence.length - 1] === 1
HasReachedOne(s) == s[Len(s)] = 1

\* the stats object; a quotient the source leaves as a float is kept as the
\* pair <<dividend, divisor>>
calculateStatistics(s) ==
    [ length        |-> Len(s),
      maxValue      |-> MaxOf(s),
      minValue      |-> MinOf(s),
      steps         |-> Len(s) - 1,
      hasReachedOne |-> HasReachedOne(s),
      startNumber   |-> s[1],
      endNumber     |-> s[Len(s)],
      averageValue  |-> <<SumOf(s), Len(s)>>,
      evenCount     |-> Cardinality({ i \in 1..Len(s) : s[i] % 2 = 0 }),
      oddCount      |-> Cardinality({ i \in 1..Len(s) : s[i] % 2 = 1 }),
      maxValueIndex |-> IndexOf(s, MaxOf(s)),
      peakToTroughRatio |-> IF MinOf(s) > 0 THEN <<MaxOf(s), MinOf(s)>> ELSE <<0, 1>>,
      complexity    |-> DirectionChanges(s) ]

\* arguments for which calculateStatistics is called directly
StatInputs == { ArrayOf(<<>>), NotArray(<<>>), NotArray(<<6, 3>>), ArrayOf(<<4, 2, 1>>) }

\* one call of calculateStatistics
CalculateStatisticsOf(a) ==
    /\ statsArg' = a
    /\ statsOut' = IF RejectsSequence(a)
                   THEN [status |-> "threw"]
                   ELSE [status |-> "returned", stats |-> calculateStatistics(a.items)]

\* calculateStatistics is called on the sequence generateSequence returned
CalculateStatisticsOfResult ==
    /\ gpc = "returned"
    /\ statsOut.status = "none"
    /\ CalculateStatisticsOf(ArrayOf(sequence))
    /\ UNCHANGED <<gpc, startNumber, sequence, current, iterations, warned>>
    /\ UNCHANGED <<storeVars, analyzerVars>>

\* calculateStatistics is called on some other argument
CalculateStatisticsOfInput(a) ==
    /\ gpc = "idle"
    /\ CalculateStatisticsOf(a)
    /\ UNCHANGED <<gpc, startNumber, sequence, current, iterations, warned>>
    /\ UNCHANGED <<storeVars, analyzerVars>>

-----------------------------------------------------------------------------
(***************************************************************************)
(* CollatzAlgorithm.analyzePatterns                                        *)
(***************************************************************************)
\* Math.min
Min(a, b) == IF a < b THEN a ELSE b

\* sequence.slice(from, to), zero-based, to exclusive
Slice(s, from, to) == SubSeq(s, from + 1, Min(to, Len(s)))

\* sequence.indexOf(v, from), zero-based, -1 when absent
IndexOfFrom(s, v, from) ==
    IF \E i \in (from + 1)..Len(s) : s[i] = v
    THEN (CHOOSE i \in (from + 1)..Len(s) :
            s[i] = v /\ \A j \in (from + 1)..(i - 1) : s[j] # v) - 1
    ELSE -1

\* the test of findRepeatingPatterns for one pattern length and start
PatternRepeats(s, len, start) ==
    LET pattern == Slice(s, start, start + len)
        nextOccurrence == IndexOfFrom(s, pattern[1], start + len)
    IN  /\ nextOccurrence # -1
        /\ pattern = Slice(s, nextOccurrence, nextOccurrence + len)

RECURSIVE PatternsFrom(_, _, _)
\* the inner loop of findRepeatingPatterns, from one start on
PatternsFrom(s, len, start) ==
    IF start > Len(s) - len * 2 THEN <<>>
    ELSE (IF PatternRepeats(s, len, start)
          THEN << Slice(s, start, start + len) >> ELSE <<>>)
         \o PatternsFrom(s, len, start + 1)

RECURSIVE PatternsOfLength(_, _)
\* the outer loop of findRepeatingPatterns, from one pattern length on
PatternsOfLength(s, len) ==
    IF len > Min(10, Len(s) \div 2) THEN <<>>
    ELSE PatternsFrom(s, len, 0) \o PatternsOfLength(s, len + 1)

findRepeatingPatterns(s) == PatternsOfLength(s, 2)

RECURSIVE StepTypesFrom(_, _)
\* the stepTypes loop: a pair that is neither step pushes nothing
StepTypesFrom(s, i) ==
    IF i > Len(s) - 1 THEN <<>>
    ELSE (IF 2 * s[i + 1] = s[i] THEN <<"divide">>
          ELSE IF s[i + 1] = 3 * s[i] + 1 THEN <<"multiply">>
          ELSE <<>>)
         \o StepTypesFrom(s, i + 1)

\* the patterns object; a growth rate is kept as <<dividend, divisor>>
analyzePatterns(s) ==
    [ cycles            |-> <<>>,
      repeatingPatterns |-> findRepeatingPatterns(s),
      growthRate        |-> [ i \in 1..(Len(s) - 1) |-> <<s[i + 1], s[i]>> ],
      stepTypes         |-> StepTypesFrom(s, 1) ]

-----------------------------------------------------------------------------
(***************************************************************************)
(* DataManager                                                             *)
(***************************************************************************)
\* the colors array of generateColor
colors ==
    << "#3b82f6", "#ef4444", "#10b981", "#f59e0b", "#8b5cf6",
       "#06b6d4", "#f97316", "#ec4899", "#84cc16", "#6366f1" >>

generateColor(index) == colors[(index % Len(colors)) + 1]

\* an id that leaves the counter out
IdOfClockOnly(time, counter) == <<time, 0>>

\* the id string `seq_${Date.now()}_${++this.currentSequenceId}`
IdOf(time, counter) == <<time, counter>>

\* the events the DataManager publishes
Events == {"sequenceAdded", "sequenceRemoved", "sequencesCleared"}

\* the callbacks a caller registers; cbThrow throws when invoked
Callbacks == {"cbLog", "cbThrow"}

Throws(callback) == callback = "cbThrow"

\* a notification without the try/catch: the first callback that throws
\* ends it
InvocationsUntilThrow(event, data) ==
    LET listeners == eventListeners[event]
        throwers  == { i \in 1..Len(listeners) : Throws(listeners[i]) }
        last      == IF throwers = {} THEN Len(listeners)
                     ELSE CHOOSE i \in throwers : \A j \in throwers : i <= j
    IN  [ i \in 1..last |->
            [ event    |-> event,
              callback |-> listeners[i],
              data     |-> data,
              threw    |-> Throws(listeners[i]) ] ]

\* notifyListeners(event, data): the invocations it makes, in order
Invocations(event, data) ==
    [ i \in 1..Len(eventListeners[event]) |->
        [ event    |-> event,
          callback |-> eventListeners[event][i],
          data     |-> data,
          threw    |-> Throws(eventListeners[event][i]) ] ]

\* an eviction that gives the records left the colour of their new place
EvictRecolor(list) ==
    [ i \in 1..(Len(list) - 1) |->
        [ list[i + 1] EXCEPT !.color = generateColor(i - 1) ] ]

\* the oldest record is dropped, and nobody is told
Evict(list) == Tail(list)

\* what addSequence is called with: the start and the sequence
AddInput(n, seq) == [startNumber |-> n, sequence |-> seq]

\* the input of a plain addSequence call: start 2 and its sequence
PlainInput == AddInput(2, ArrayOf(generateSequence(2)))

\* the other inputs: start 1 and its sequence; an empty sequence
OtherInputs == { AddInput(1, ArrayOf(generateSequence(1))), AddInput(3, ArrayOf(<<>>)) }

\* a call counted against MaxCalls
Counted == calls < MaxCalls /\ calls' = calls + 1

\* a limit check that compares with > where >= is meant
AfterLimitCheckLate(list) ==
    IF Len(list) > maxSequences THEN Evict(list) ELSE list

\* the store as addSequence sees it once the limit check has run
AfterLimitCheck(list) ==
    IF Len(list) >= maxSequences THEN Evict(list) ELSE list

\* a record that also carries a convergence analysis and a list of cycles
SequenceDataWithAnalysis(id, in, index, time) ==
    [ id          |-> id,
      startNumber |-> in.startNumber,
      sequence    |-> in.sequence.items,
      statistics  |-> calculateStatistics(in.sequence.items),
      color       |-> generateColor(index),
      createdAt   |-> time,
      patterns    |-> analyzePatterns(in.sequence.items),
      cycles      |-> <<>>,
      convergenceAnalysis |-> [convergenceType |-> "unknown"] ]

\* const sequenceData = {...}: the record addSequence builds, stores and
\* returns; index is this.sequences.length, time is Date.now()
SequenceData(id, in, index, time) ==
    [ id          |-> id,
      startNumber |-> in.startNumber,
      sequence    |-> in.sequence.items,
      statistics  |-> calculateStatistics(in.sequence.items),
      color       |-> generateColor(index),
      createdAt   |-> time,
      patterns    |-> analyzePatterns(in.sequence.items) ]

\* addSequence(startNumber, sequence)
AddSequence(in) ==
    /\ currentSequenceId < MaxId
    /\ LET kept == AfterLimitCheck(sequences)
           id   == IdOf(now, currentSequenceId + 1)
           full == Len(sequences) >= maxSequences
       IN  /\ currentSequenceId' = currentSequenceId + 1
           /\ issued' = issued \cup {id}
           /\ IF RejectsSequence(in.sequence)
              THEN \* calculateStatistics throws after shift() and generateId()
                   /\ sequences' = kept
                   /\ notified' = <<>>
                   /\ lastCall' = [op |-> "addSequence", full |-> full,
                                   threw |-> TRUE, id |-> id]
              ELSE LET sequenceData == SequenceData(id, in, Len(kept), now)
                   IN  /\ sequences' = Append(kept, sequenceData)
                       /\ notified' = Invocations("sequenceAdded", id)
                       /\ lastCall' = [op |-> "addSequence", full |-> full,
                                       threw |-> FALSE, id |-> id]
    /\ UNCHANGED <<eventListeners, now>>

\* a plain addSequence call
AddPlain ==
    /\ AddSequence(PlainInput)
    /\ UNCHANGED calls
    /\ UNCHANGED <<genVars, analyzerVars>>

\* an addSequence call with one of the other inputs
AddOther(in) ==
    /\ Counted
    /\ AddSequence(in)
    /\ UNCHANGED <<genVars, analyzerVars>>

\* this.sequences.findIndex(seq => seq.id === id), one-based, 0 when absent
FindIndex(list, id) ==
    IF \E i \in 1..Len(list) : list[i].id = id
    THEN CHOOSE i \in 1..Len(list) :
            list[i].id = id /\ \A j \in 1..(i - 1) : list[j].id # id
    ELSE 0

\* a splice that takes the one-based index for a zero-based one
RemoveAtZeroBased(list, index) ==
    SubSeq(list, 1, index) \o SubSeq(list, index + 2, Len(list))

\* list.splice(index, 1), one-based
RemoveAt(list, index) ==
    SubSeq(list, 1, index - 1) \o SubSeq(list, index + 1, Len(list))

\* the ids of the records in a list
IdsIn(list) == { list[i].id : i \in 1..Len(list) }

\* the ids removeSequence is called with: those in the store, the first
\* issued one when it is no longer there, and one that was never issued
RemoveArgs ==
    IdsIn(sequences)
        \cup { id \in issued : id[2] = 1 /\ id \notin IdsIn(sequences) }
        \cup { <<0, 0>> }

\* removeSequence(id)
RemoveSequence(id) ==
    /\ Counted
    /\ LET index == FindIndex(sequences, id)
       IN  IF index # 0
           THEN /\ sequences' = RemoveAt(sequences, index)
                /\ notified' = Invocations("sequenceRemoved", id)
                /\ lastCall' = [op |-> "removeSequence", id |-> id, result |-> TRUE]
           ELSE /\ sequences' = sequences
                /\ notified' = <<>>
                /\ lastCall' = [op |-> "removeSequence", id |-> id, result |-> FALSE]
    /\ UNCHANGED <<currentSequenceId, eventListeners, now, issued>>
    /\ UNCHANGED <<genVars, analyzerVars>>

\* clearSequences()
ClearSequences ==
    /\ Counted
    /\ sequences' = <<>>
    /\ notified' = Invocations("sequencesCleared", "undefined")
    /\ lastCall' = [op |-> "clearSequences"]
    /\ UNCHANGED <<currentSequenceId, eventListeners, now, issued>>
    /\ UNCHANGED <<genVars, analyzerVars>>

\* addEventListener(event, callback); an event never registered and one
\* whose list is empty are both the empty list here
AddEventListener(event, callback) ==
    /\ Counted
    /\ eventListeners' =
          [eventListeners EXCEPT ![event] = Append(@, callback)]
    /\ notified' = <<>>
    /\ lastCall' = [op |-> "addEventListener"]
    /\ UNCHANGED <<sequences, currentSequenceId, now, issued>>
    /\ UNCHANGED <<genVars, analyzerVars>>

\* time passes: Date.now() reads the next value
Tick ==
    /\ Counted
    /\ now < MaxTime
    /\ now' = now + 1
    /\ UNCHANGED <<sequences, currentSequenceId, eventListeners, lastCall, notified, issued>>
    /\ UNCHANGED <<genVars, analyzerVars>>

\* notifyListeners(event, data) for an event that may have no entry in the
\* map: if (this.eventListeners.has(event))
NotifyListeners(event, data) ==
    IF event \in DOMAIN eventListeners THEN Invocations(event, data) ELSE <<>>

\* data.sequences of an export of `count` records, as JSON.parse gives it
ExportedSequences(count) ==
    [ i \in 1..count |-> SequenceData(IdOf(0, i), PlainInput, i - 1, 0) ]

\* what JSON.parse makes of the texts importFromJSON is called with: a text
\* that is not JSON, an object without a sequences array, and objects whose
\* sequences array holds no record, one record, and one record more than
\* maxSequences
ImportInputs ==
    { [kind |-> "invalid"], [kind |-> "noSequences"] }
        \cup { [kind |-> "sequences", sequences |-> ExportedSequences(count)] :
                  count \in {0, 1, maxSequences + 1} }

\* importFromJSON(jsonData)
ImportFromJSON(data) ==
    /\ Counted
    /\ IF data.kind = "sequences"
       THEN /\ sequences' = data.sequences
            /\ notified' = NotifyListeners("dataImported", "data")
            /\ lastCall' = [op |-> "importFromJSON", kind |-> data.kind,
                            result |-> TRUE]
       ELSE /\ sequences' = sequences
            /\ notified' = <<>>
            /\ lastCall' = [op |-> "importFromJSON", kind |-> data.kind,
                            result |-> FALSE]
    /\ UNCHANGED <<currentSequenceId, eventListeners, now, issued>>
    /\ UNCHANGED <<genVars, analyzerVars>>

\* what getSequenceById returns when no record has the id
Null == [null |-> TRUE]

\* a lookup that falls back on the first record
getSequenceByIdOrFirst(list, id) ==
    IF FindIndex(list, id) # 0 THEN list[FindIndex(list, id)]
    ELSE IF Len(list) > 0 THEN list[1] ELSE Null

\* getSequenceById(id): this.sequences.find(seq => seq.id === id) || null
getSequenceById(list, id) ==
    IF FindIndex(list, id) # 0 THEN list[FindIndex(list, id)] ELSE Null

\* calculateSimilarity(seq1, seq2): matches / minLength, as the pair
calculateSimilarity(seq1, seq2) ==
    LET minLength == Min(Len(seq1), Len(seq2))
    IN  <<Cardinality({ i \in 1..minLength : seq1[i] = seq2[i] }), minLength>>

\* the comparison object of compareSequences; a difference of two quotients
\* a/b - c/d is the pair <<a*d - c*b, b*d>>
Comparison(seq1, seq2) ==
    [ lengthDifference     |-> seq1.statistics.length - seq2.statistics.length,
      maxValueDifference   |-> seq1.statistics.maxValue - seq2.statistics.maxValue,
      stepDifference       |-> seq1.statistics.steps - seq2.statistics.steps,
      complexityDifference |-> seq1.statistics.complexity - seq2.statistics.complexity,
      averageValueDifference |->
          << seq1.statistics.averageValue[1] * seq2.statistics.averageValue[2]
               - seq2.statistics.averageValue[1] * seq1.statistics.averageValue[2],
             seq1.statistics.averageValue[2] * seq2.statistics.averageValue[2] >>,
      evenOddRatio1        |-> <<seq1.statistics.evenCount, seq1.statistics.oddCount>>,
      evenOddRatio2        |-> <<seq2.statistics.evenCount, seq2.statistics.oddCount>>,
      similarity           |-> calculateSimilarity(seq1.sequence, seq2.sequence) ]

\* the ids compareSequences is called with: the oldest and the newest in
\* the store, the first issued one when it is no longer there, and one that
\* was never issued
CompareArgs ==
    { sequences[i].id : i \in {1, Len(sequences)} \cap DOMAIN sequences }
        \cup { id \in issued : id[2] = 1 /\ id \notin IdsIn(sequences) }
        \cup { <<0, 0>> }

\* compareSequences(id1, id2)
CompareSequences(id1, id2) ==
    /\ Counted
    /\ LET seq1 == getSequenceById(sequences, id1)
           seq2 == getSequenceById(sequences, id2)
       IN  lastCall' =
             IF seq1 = Null \/ seq2 = Null
             THEN [op |-> "compareSequences", id1 |-> id1, id2 |-> id2,
                   threw |-> TRUE]
             ELSE [op |-> "compareSequences", id1 |-> id1, id2 |-> id2,
                   threw |-> FALSE, comparison |-> Comparison(seq1, seq2)]
    /\ notified' = <<>>
    /\ UNCHANGED <<sequences, currentSequenceId, eventListeners, now, issued>>
    /\ UNCHANGED <<genVars, analyzerVars>>


-----------------------------------------------------------------------------
(***************************************************************************)
(* ComparisonAnalyzer (comparisonAnalyzer.js).  A quotient the source      *)
(* leaves as a float is kept exact, as the pair <<dividend, divisor>>;     *)
(* <<0, 0>> is NaN.  Math.floor(n * 0.3), Math.floor(n * 0.7) and          *)
(* Math.floor(n * 0.2) are taken exactly, which is what the floats give    *)
(* for every n below 90.                                                   *)
(***************************************************************************)

\* this.patterns after initializePatterns(), in declaration order; the
\* names and descriptions are the Russian ones of the source in English
PatternCatalog ==
    << [name |-> "Fast convergence", color |-> "#10b981",
        description |-> "Sequences that reach 1 quickly"],
       [name |-> "Long sequence", color |-> "#ef4444",
        description |-> "Sequences with a large number of steps"],
       [name |-> "High peak", color |-> "#f59e0b",
        description |-> "Sequences with very high values"],
       [name |-> "Stable", color |-> "#3b82f6",
        description |-> "Sequences with small fluctuations"],
       [name |-> "Cyclic", color |-> "#8b5cf6",
        description |-> "Sequences with repeating patterns"],
       [name |-> "Exponential growth", color |-> "#ec4899",
        description |-> "Sequences with fast growth of values"],
       [name |-> "Smooth convergence", color |-> "#06b6d4",
        description |-> "Sequences with a smooth decrease"] >>

\* the squares of the values
Squares(s) == [i \in 1..Len(s) |-> s[i] * s[i]]

\* Math.sqrt(variance) < avg * 0.5, with avg = S/n and variance =
\* (n * sum of squares - S^2) / n^2: for S > 0 this is
\* 4 * (n * sum of squares - S^2) < S^2; it fails for S <= 0 and for n = 0
IsStable(values) ==
    /\ Len(values) > 0
    /\ SumOf(values) > 0
    /\ 4 * (Len(values) * SumOf(Squares(values)) - SumOf(values) * SumOf(values))
          < SumOf(values) * SumOf(values)

\* hasCyclicPattern(sequence)
hasCyclicPattern(s) ==
    /\ ~(Len(s) < 6)
    /\ \E len \in 2..Min(10, Len(s) \div 2) :
         \E start \in 0..(Len(s) - len * 2) :
            \A idx \in 1..len : s[start + idx] = s[start + len + idx]

\* hasExponentialGrowth(sequence): sequence[i] > sequence[i-1] * 1.5
hasExponentialGrowth(s) ==
    /\ ~(Len(s) < 5)
    /\ Cardinality({ i \in 2..Len(s) : 2 * s[i] > 3 * s[i - 1] })
          >= (3 * Len(s)) \div 10

\* hasSmoothConvergence(sequence)
hasSmoothConvergence(s) ==
    /\ ~(Len(s) < 10)
    /\ LET checkLength == (3 * Len(s)) \div 10
           endSequence == SubSeq(s, Len(s) - checkLength + 1, Len(s))
       IN  Cardinality({ i \in 2..Len(endSequence) :
                            endSequence[i] <= endSequence[i - 1] })
              >= (7 * Len(endSequence)) \div 10

\* pattern.condition(seq) for the pattern of that name
PatternCondition(name, seq) ==
    CASE name = "Fast convergence"   -> seq.statistics.length < 20
      [] name = "Long sequence"      -> seq.statistics.length > 100
      [] name = "High peak"          -> seq.statistics.maxValue > 10000
      [] name = "Stable"             -> IsStable(seq.sequence)
      [] name = "Cyclic"             -> hasCyclicPattern(seq.sequence)
      [] name = "Exponential growth" -> hasExponentialGrowth(seq.sequence)
      [] name = "Smooth convergence" -> hasSmoothConvergence(seq.sequence)

\* detectPatterns(sequence) with this.patterns = catalog
detectPatterns(catalog, seq) ==
    SelectSeq(catalog, LAMBDA pattern : PatternCondition(pattern.name, seq))

\* the block of cycleLength values at start (zero-based) is repeated at
\* the k-th offset: the slice there is whole and equal to it
CycleRepeatsAt(s, cycleLength, start, k) ==
    /\ k * cycleLength <= Len(s) - cycleLength
    /\ start + (k + 1) * cycleLength <= Len(s)
    /\ \A idx \in 1..cycleLength :
          s[start + idx] = s[start + k * cycleLength + idx]

\* a count whose offset moves on by one place instead of by cycleLength
RepeatCountStepOne(s, cycleLength, start) ==
    1 + Cardinality({ k \in 1..Len(s) :
          \A j \in 1..k :
              LET offset == cycleLength + j - 1
              IN  /\ offset <= Len(s) - cycleLength
                  /\ start + offset + cycleLength <= Len(s)
                  /\ \A idx \in 1..cycleLength :
                        s[start + idx] = s[start + offset + idx] })

\* repeatCount of findCycles for that block: the loop stops at the first
\* offset that does not repeat it
RepeatCount(s, cycleLength, start) ==
    1 + Cardinality({ k \in 1..Len(s) :
                        \A j \in 1..k : CycleRepeatsAt(s, cycleLength, start, j) })

\* the <<cycleLength, start>> pairs findCycles pushes a record for
CyclePairs(s) ==
    { pair \in (2..Min(20, Len(s) \div 2)) \X (0..Len(s)) :
        /\ pair[2] <= Len(s) - pair[1] * 2
        \* repeatCount >= 2: the first offset repeats the block
        /\ CycleRepeatsAt(s, pair[1], pair[2], 1) }

\* the order the two loops of findCycles visit the pairs in
CyclePairBefore(a, b) == a[1] < b[1] \/ (a[1] = b[1] /\ a[2] < b[2])

\* findCycles(sequence)
findCycles(s) ==
    LET pairs == CyclePairs(s)
        pairAt(r) == CHOOSE pair \in pairs :
                        Cardinality({ q \in pairs : CyclePairBefore(q, pair) }) = r - 1
    IN  [ r \in 1..Cardinality(pairs) |->
            [ length      |-> pairAt(r)[1],
              start       |-> pairAt(r)[2],
              repeats     |-> RepeatCount(s, pairAt(r)[1], pairAt(r)[2]),
              pattern     |-> SubSeq(s, pairAt(r)[2] + 1, pairAt(r)[2] + pairAt(r)[1]),
              totalLength |-> pairAt(r)[1] * RepeatCount(s, pairAt(r)[1], pairAt(r)[2]) ] ]


\* Math.abs
Abs(a) == IF a < 0 THEN -a ELSE a

\* the greatest common divisor of two naturals
RECURSIVE Gcd(_, _)
Gcd(a, b) == IF b = 0 THEN a ELSE Gcd(b, a % b)

\* the quotient a/b in lowest terms with a positive divisor; NaN for b = 0
Quotient(a, b) ==
    IF b = 0 THEN <<0, 0>>
    ELSE LET g == Gcd(Abs(a), Abs(b))
         IN  IF b < 0 THEN <<(-a) \div g, (-b) \div g>> ELSE <<a \div g, b \div g>>

\* the sum of two quotients
QuotientSum(p, q) ==
    IF p[2] = 0 \/ q[2] = 0 THEN <<0, 0>>
    ELSE Quotient(p[1] * q[2] + q[1] * p[2], p[2] * q[2])

\* quotients.reduce((a, b) => a + b, 0) over places lo..hi
RECURSIVE QuotientSumRange(_, _, _)
QuotientSumRange(quotients, lo, hi) ==
    IF lo > hi THEN <<0, 1>>
    ELSE QuotientSum(QuotientSumRange(quotients, lo, hi - 1), quotients[hi])

\* a check that lets sequences of two elements through
TooShortBelowTwo(s) == Len(s) < 2

\* if (sequence.length < 3) return analysis
TooShort(s) == Len(s) < 3

\* the interior points that are strict local extrema
Oscillations(s) ==
    Cardinality({ i \in 2..(Len(s) - 1) :
        \/ (s[i] > s[i-1] /\ s[i] > s[i+1])
        \/ (s[i] < s[i-1] /\ s[i] < s[i+1]) })

\* the absolute differences of neighbours
Differences(s) == [i \in 1..(Len(s) - 1) |-> Abs(s[i + 1] - s[i])]

\* sequence.slice(-Math.min(10, Math.floor(sequence.length * 0.2))); a
\* slice from -0 is the whole sequence
LastValues(s) ==
    LET count == Min(10, Len(s) \div 5)
    IN  IF count = 0 THEN s ELSE SubSeq(s, Len(s) - count + 1, Len(s))

\* lastValues.every((val, idx) => idx === 0 || val <= lastValues[idx-1])
IsDecreasing(lastValues) ==
    \A idx \in 2..Len(lastValues) : lastValues[idx] <= lastValues[idx - 1]

\* lastValues[lastValues.length - 1] <= Math.max(...lastValues) * 0.5
IsConverging(lastValues) == 2 * Last(lastValues) <= MaxOf(lastValues)

\* analyzeConvergence(sequence)
analyzeConvergence(s) ==
    IF TooShort(s)
    THEN [ convergenceType  |-> "unknown",
           convergenceSpeed |-> <<0, 1>>,
           oscillationLevel |-> <<0, 1>>,
           stabilityScore   |-> <<0, 1>> ]
    ELSE LET oscillations  == Oscillations(s)
             differences   == Differences(s)
             maxDifference == MaxOf(differences)
             \* 1 - (sum / length) / max
             stability     == Quotient(Len(differences) * maxDifference - SumOf(differences),
                                       Len(differences) * maxDifference)
             level         == <<oscillations, Len(s) - 2>>
             lastValues    == LastValues(s)
         IN  IF IsDecreasing(lastValues) /\ IsConverging(lastValues)
             THEN [ convergenceType  |-> "smooth",
                    convergenceSpeed |-> <<Len(s) - 2 - oscillations, Len(s) - 2>>,
                    oscillationLevel |-> level,
                    stabilityScore   |-> stability ]
             ELSE IF 2 * oscillations > Len(s) - 2
             THEN [ convergenceType  |-> "oscillating",
                    convergenceSpeed |-> <<1, 2>>,
                    oscillationLevel |-> level,
                    stabilityScore   |-> stability ]
             ELSE [ convergenceType  |-> "irregular",
                    convergenceSpeed |-> <<3, 10>>,
                    oscillationLevel |-> level,
                    stabilityScore   |-> stability ]


\* the object {}
EmptyObject == <<>>

\* the coefficient 0 that calculateCorrelation returns as a number
ZeroCoefficient == [numerator |-> 0, radicand |-> 1]

\* x.reduce((sum, xi, i) => sum + xi * y[i], 0)
SumProducts(x, y) == SumOf([i \in 1..Len(x) |-> x[i] * y[i]])

\* a numerator that leaves out the product of the sums
NumeratorWithoutSums(x, y) == Len(x) * SumProducts(x, y)

\* numerator = n * sumXY - sumX * sumY
Numerator(x, y) == Len(x) * SumProducts(x, y) - SumOf(x) * SumOf(y)

\* what Math.sqrt is taken of:
\* (n * sumX2 - sumX * sumX) * (n * sumY2 - sumY * sumY)
Radicand(x, y) ==
    (Len(x) * SumOf(Squares(x)) - SumOf(x) * SumOf(x))
        * (Len(y) * SumOf(Squares(y)) - SumOf(y) * SumOf(y))

\* calculateCorrelation(x, y): the coefficient numerator / sqrt(radicand) is
\* kept as that pair of integers; the square root is 0 exactly when the
\* radicand is, and a numerator of 0 gives the number 0 as well
calculateCorrelation(x, y) ==
    IF Len(x) # Len(y) \/ Len(x) = 0 THEN ZeroCoefficient
    ELSE IF Radicand(x, y) = 0 THEN ZeroCoefficient
    ELSE IF Numerator(x, y) = 0 THEN ZeroCoefficient
    ELSE [numerator |-> Numerator(x, y), radicand |-> Radicand(x, y)]

\* the property pairs calculateCorrelations declares
CorrelationPairs ==
    {"lengthVsMaxValue", "startNumberVsLength", "startNumberVsMaxValue", "stepsVsLength"}

\* a guard that gives every pair the coefficient 0 instead of {}
TooFewToCorrelateAsZeros(seqs) == [pair \in CorrelationPairs |-> ZeroCoefficient]

\* if (this.sequences.length < 2) return {}: what is returned then
TooFewToCorrelate(seqs) == EmptyObject

\* calculateCorrelations() with this.sequences = seqs
calculateCorrelations(seqs) ==
    IF Len(seqs) < 2 THEN TooFewToCorrelate(seqs)
    ELSE LET startNumbers == [i \in 1..Len(seqs) |-> seqs[i].startNumber]
             lengths      == [i \in 1..Len(seqs) |-> seqs[i].statistics.length]
             maxValues    == [i \in 1..Len(seqs) |-> seqs[i].statistics.maxValue]
             steps        == [i \in 1..Len(seqs) |-> seqs[i].statistics.steps]
         IN  [ lengthVsMaxValue      |-> calculateCorrelation(lengths, maxValues),
               startNumberVsLength   |-> calculateCorrelation(startNumbers, lengths),
               startNumberVsMaxValue |-> calculateCorrelation(startNumbers, maxValues),
               stepsVsLength         |-> calculateCorrelation(steps, lengths) ]

\* [...values].sort((a, b) => a - b)[index], zero-based
SortedAt(values, index) ==
    CHOOSE v \in { values[i] : i \in 1..Len(values) } :
        /\ Cardinality({ i \in 1..Len(values) : values[i] < v }) <= index
        /\ index < Cardinality({ i \in 1..Len(values) : values[i] <= v })

\* calculateOutlierStats(values); the bounds q1 - 1.5 * iqr and
\* q3 + 1.5 * iqr are kept as halves
calculateOutlierStats(values) ==
    LET q1  == SortedAt(values, Len(values) \div 4)
        q3  == SortedAt(values, (3 * Len(values)) \div 4)
        iqr == q3 - q1
    IN  [ q1 |-> q1, q3 |-> q3, iqr |-> iqr,
          lowerBound |-> <<2 * q1 - 3 * iqr, 2>>,
          upperBound |-> <<2 * q3 + 3 * iqr, 2>> ]

\* a test that forgets the lower bound
IsOutlierAboveOnly(value, stats) == 2 * value > stats.upperBound[1]

\* value > stats.upperBound || value < stats.lowerBound
IsOutlier(value, stats) ==
    2 * value > stats.upperBound[1] \/ 2 * value < stats.lowerBound[1]

\* a severity measured from the nearer quartile instead of the midpoint
calculateAnomalySeverityFromQuartile(value, stats) ==
    LET distance == Min(Abs(value - stats.q1), Abs(value - stats.q3))
    IN  IF distance > stats.iqr * 3 THEN "high"
        ELSE IF distance > stats.iqr * 2 THEN "medium"
        ELSE "low"

\* calculateAnomalySeverity(value, stats), distances doubled
calculateAnomalySeverity(value, stats) ==
    LET distance2 == Abs(2 * value - (stats.q1 + stats.q3))
    IN  IF distance2 > 2 * stats.iqr * 3 THEN "high"
        ELSE IF distance2 > 2 * stats.iqr * 2 THEN "medium"
        ELSE "low"

\* the anomalies one forEach of findAnomalies pushes for a property
OutlierAnomalies(seqs, values, type) ==
    LET stats == calculateOutlierStats(values)
        at(i) == [ type        |-> type,
                   sequence    |-> seqs[i],
                   value       |-> [number |-> values[i]],
                   description |-> [text |-> "outside the normal range",
                                    value |-> values[i]],
                   severity    |-> calculateAnomalySeverity(values[i], stats) ]
        all   == [i \in 1..Len(seqs) |-> at(i)]
    IN  SelectSeq(all, LAMBDA a : IsOutlier(a.value.number, stats))

\* the anomalies the last forEach of findAnomalies pushes
PatternAnomalies(seqs) ==
    LET at(i) == [ type        |-> "pattern",
                   sequence    |-> seqs[i],
                   value       |-> [text |-> "no_patterns"],
                   description |-> [text |-> "matches no known pattern"],
                   severity    |-> "medium" ]
        all   == [i \in 1..Len(seqs) |-> at(i)]
    IN  SelectSeq(all, LAMBDA a : Len(a.sequence.patterns) = 0)

\* a guard that lets two sequences through
TooFewForAnomaliesBelowTwo(seqs) == Len(seqs) < 2

\* if (this.sequences.length < 3) return anomalies
TooFewForAnomalies(seqs) == Len(seqs) < 3

\* findAnomalies() with this.sequences = seqs
findAnomalies(seqs) ==
    IF TooFewForAnomalies(seqs) THEN <<>>
    ELSE OutlierAnomalies(seqs, [i \in 1..Len(seqs) |-> seqs[i].statistics.length], "length")
           \o OutlierAnomalies(seqs, [i \in 1..Len(seqs) |-> seqs[i].statistics.maxValue], "maxValue")
           \o PatternAnomalies(seqs)


\* analyzePatternDistribution(): a count for every name of the catalog
analyzePatternDistribution(catalog, seqs) ==
    [ name \in { catalog[k].name : k \in 1..Len(catalog) } |->
        Cardinality(UNION { { <<i, j>> : j \in { k \in 1..Len(seqs[i].patterns) :
                                                    seqs[i].patterns[k].name = name } } :
                            i \in 1..Len(seqs) }) ]

\* the cycle records of all sequences, as <<sequence, cycle>> places
CyclePlaces(seqs) ==
    UNION { { <<i, j>> : j \in 1..Len(seqs[i].cycles) } : i \in 1..Len(seqs) }

\* Object.entries(counts).sort(([,a], [,b]) => b - a)[0][0] for counts of
\* cycle lengths: integer keys come in ascending order and the sort is
\* stable, so it is the smallest of the most frequent lengths
MostCommonCycleLength(seqs) ==
    LET places    == CyclePlaces(seqs)
        lengthOf(place) == seqs[place[1]].cycles[place[2]].length
        lengths   == { lengthOf(place) : place \in places }
        count(l)  == Cardinality({ place \in places : lengthOf(place) = l })
    IN  CHOOSE l \in lengths :
            \A m \in lengths : count(m) < count(l) \/ (count(m) = count(l) /\ l <= m)

\* analyzeCycles()
analyzeCycles(seqs) ==
    LET places == CyclePlaces(seqs)
    IN  IF places = {}
        THEN [ totalCycles |-> 0, averageCycleLength |-> <<0, 1>>,
               mostCommonCycleLength |-> 0, sequencesWithCycles |-> 0 ]
        ELSE [ totalCycles |-> Cardinality(places),
               averageCycleLength |->
                   << SumOf([i \in 1..Len(seqs) |->
                               SumOf([j \in 1..Len(seqs[i].cycles) |->
                                        seqs[i].cycles[j].length])]),
                      Cardinality(places) >>,
               mostCommonCycleLength |-> MostCommonCycleLength(seqs),
               sequencesWithCycles |->
                   Cardinality({ i \in 1..Len(seqs) : Len(seqs[i].cycles) > 0 }) ]

\* the convergence type whose key was inserted first among the most
\* frequent ones, 'unknown' when there is none
DominantType(seqs) ==
    LET typeOf(i)  == seqs[i].convergenceAnalysis.convergenceType
        count(t)   == Cardinality({ i \in 1..Len(seqs) : typeOf(i) = t })
        first(t)   == CHOOSE i \in 1..Len(seqs) :
                         typeOf(i) = t /\ \A j \in 1..(i - 1) : typeOf(j) # t
    IN  IF Len(seqs) = 0 THEN "unknown"
        ELSE typeOf(CHOOSE i \in 1..Len(seqs) :
                /\ first(typeOf(i)) = i
                /\ \A j \in 1..Len(seqs) :
                      \/ count(typeOf(j)) < count(typeOf(i))
                      \/ (count(typeOf(j)) = count(typeOf(i)) /\ i <= first(typeOf(j))))

\* the mean of a list of quotients, 0 for the empty list
QuotientMean(quotients) ==
    IF Len(quotients) = 0 THEN <<0, 1>>
    ELSE LET sum == QuotientSumRange(quotients, 1, Len(quotients))
         IN  IF sum[2] = 0 THEN <<0, 0>>
             ELSE Quotient(sum[1], sum[2] * Len(quotients))

\* analyzeOverallConvergence()
analyzeOverallConvergence(seqs) ==
    [ types |->
        [ t \in { seqs[i].convergenceAnalysis.convergenceType : i \in 1..Len(seqs) } |->
            Cardinality({ i \in 1..Len(seqs) :
                            seqs[i].convergenceAnalysis.convergenceType = t }) ],
      averageSpeed |->
        QuotientMean([i \in 1..Len(seqs) |-> seqs[i].convergenceAnalysis.convergenceSpeed]),
      averageStability |->
        QuotientMean([i \in 1..Len(seqs) |-> seqs[i].convergenceAnalysis.stabilityScore]),
      dominantType |-> DominantType(seqs) ]

\* updateStatistics()
updateStatistics(catalog, seqs) ==
    IF Len(seqs) = 0 THEN EmptyObject
    ELSE LET lengths    == [i \in 1..Len(seqs) |-> seqs[i].statistics.length]
             maxValues  == [i \in 1..Len(seqs) |-> seqs[i].statistics.maxValue]
             stepCounts == [i \in 1..Len(seqs) |-> seqs[i].statistics.steps]
         IN  [ totalSequences  |-> Len(seqs),
               averageLength   |-> <<SumOf(lengths), Len(lengths)>>,
               minLength       |-> MinOf(lengths),
               maxLength       |-> MaxOf(lengths),
               averageMaxValue |-> <<SumOf(maxValues), Len(maxValues)>>,
               minMaxValue     |-> MinOf(maxValues),
               maxMaxValue     |-> MaxOf(maxValues),
               averageSteps    |-> <<SumOf(stepCounts), Len(stepCounts)>>,
               minSteps        |-> MinOf(stepCounts),
               maxSteps        |-> MaxOf(stepCounts),
               patterns        |-> analyzePatternDistribution(catalog, seqs),
               correlations    |-> calculateCorrelations(seqs),
               cycles          |-> analyzeCycles(seqs),
               convergence     |-> analyzeOverallConvergence(seqs) ]

\* the per-sequence summaries of generateComparisonReport
Summaries(seqs) ==
    [ i \in 1..Len(seqs) |->
        [ id                  |-> seqs[i].id,
          startNumber         |-> seqs[i].startNumber,
          length              |-> seqs[i].statistics.length,
          maxValue            |-> seqs[i].statistics.maxValue,
          patterns            |-> seqs[i].patterns,
          cycles              |-> seqs[i].cycles,
          convergenceAnalysis |-> seqs[i].convergenceAnalysis ] ]

\* generateComparisonReport(), read at clock reading time
generateComparisonReport(catalog, seqs, statistics, time) ==
    [ timestamp      |-> time,
      totalSequences |-> Len(seqs),
      statistics     |-> statistics,
      patterns       |-> analyzePatternDistribution(catalog, seqs),
      anomalies      |-> findAnomalies(seqs),
      correlations   |-> calculateCorrelations(seqs),
      cycles         |-> analyzeCycles(seqs),
      convergence    |-> analyzeOverallConvergence(seqs),
      sequences      |-> Summaries(seqs) ]


(***************************************************************************)
(* Text.  A string is the sequence of its characters; a literal of the     *)
(* source that holds no quote, comma or line break (a header, a pattern    *)
(* name, a convergence type, the prefix of an id) is one element.          *)
(***************************************************************************)

\* the decimal digits
DigitChars == <<"0", "1", "2", "3", "4", "5", "6", "7", "8", "9">>

\* String(n) for a natural number
RECURSIVE Digits(_)
Digits(n) ==
    IF n < 10 THEN <<DigitChars[n + 1]>>
    ELSE Append(Digits(n \div 10), DigitChars[(n % 10) + 1])

\* String(n) for an integer
NumberText(n) == IF n < 0 THEN <<"-">> \o Digits(-n) ELSE Digits(n)

\* the id string of generateId: `seq_${Date.now()}_${++this.currentSequenceId}`
IdText(id) == <<"seq_">> \o NumberText(id[1]) \o <<"_">> \o NumberText(id[2])

\* texts.join(separator)
RECURSIVE Join(_, _)
Join(texts, separator) ==
    IF Len(texts) = 0 THEN <<>>
    ELSE IF Len(texts) = 1 THEN texts[1]
    ELSE Join(SubSeq(texts, 1, Len(texts) - 1), separator)
            \o separator \o texts[Len(texts)]

\* const headers of convertToCSV
headers ==
    << <<"ID">>, <<"Start Number">>, <<"Length">>, <<"Max Value">>,
       <<"Patterns">>, <<"Cycles">>, <<"Convergence Type">> >>

\* a row with the Length and Max Value cells in each other's place
RowCellsSwapped(seq) ==
    << IdText(seq.id),
       NumberText(seq.startNumber),
       NumberText(seq.maxValue),
       NumberText(seq.length),
       Join([k \in 1..Len(seq.patterns) |-> <<seq.patterns[k].name>>], <<";", " ">>),
       NumberText(Len(seq.cycles)),
       <<seq.convergenceAnalysis.convergenceType>> >>

\* the cells of the row convertToCSV builds for one summary, each as the
\* text its template literal gives
RowCells(seq) ==
    << IdText(seq.id),
       NumberText(seq.startNumber),
       NumberText(seq.length),
       NumberText(seq.maxValue),
       Join([k \in 1..Len(seq.patterns) |-> <<seq.patterns[k].name>>], <<";", " ">>),
       NumberText(Len(seq.cycles)),
       <<seq.convergenceAnalysis.convergenceType>> >>

\* `"${cell}"`
Quoted(cell) == <<"\"">> \o cell \o <<"\"">>

\* row.map(cell => `"${cell}"`).join(',')
RowText(cells) == Join([k \in 1..Len(cells) |-> Quoted(cells[k])], <<",">>)

\* convertToCSV(report)
convertToCSV(report) ==
    Join(<<RowText(headers)>>
            \o [i \in 1..Len(report.sequences) |-> RowText(RowCells(report.sequences[i]))],
         <<"\n">>)

\* the format values exportComparisonData is called with; "undefined" is
\* the call without an argument
Formats == {"json", "csv", "xml", "undefined"}

\* an export that throws for a format it does not know
UnsupportedFormatThrows == [threw |-> TRUE]

\* return '': what exportComparisonData gives for a format it does not know
UnsupportedFormatResult == [threw |-> FALSE, text |-> <<>>]

\* exportComparisonData(format); the JSON text is kept as the report that
\* JSON.stringify is given
exportComparisonData(format, report) ==
    LET given == IF format = "undefined" THEN "json" ELSE format
    IN  IF given = "json" THEN [threw |-> FALSE, json |-> report]
        ELSE IF given = "csv" THEN [threw |-> FALSE, text |-> convertToCSV(report)]
        ELSE UnsupportedFormatResult


(***************************************************************************)
(* The calls on the ComparisonAnalyzer.                                    *)
(***************************************************************************)

\* the start numbers of the records handed to the analyzer
AnalyzerStarts == {1, 3, 7}

\* the starts of the next record handed over: handleCompare hands the
\* records over in ascending order of their start numbers
NextStarts ==
    { n \in AnalyzerStarts :
        Len(analyzerSequences) = 0 \/ n >= Last(analyzerSequences).startNumber }

\* the start numbers of the records handed to the analyzer when anomalies
\* are looked for: their lengths are 1, 8, 6, 9 and 17 and their largest
\* values 1, 16, 16, 16 and 52
AnomalyStarts == {1, 3, 5, 6, 7}

\* the starts of the next record handed over then, in ascending order too
NextAnomalyStarts ==
    { n \in AnomalyStarts :
        Len(analyzerSequences) = 0 \/ n >= Last(analyzerSequences).startNumber }

\* the ids the analyzer's removeSequence is called with: the oldest and the
\* newest it holds, and one it never held
AnalyzerRemoveArgs ==
    { analyzerSequences[i].id :
        i \in {1, Len(analyzerSequences)} \cap DOMAIN analyzerSequences }
        \cup { <<0, 0>> }

\* the record DataManager.addSequence builds for generateSequence(n), for
\* each of the starts; its id, colour and creation time are filled in by
\* SuppliedRecord
RecordOfStart ==
    [ n \in AnalyzerStarts \cup AnomalyStarts |->
        SequenceData(IdOf(0, 0), AddInput(n, ArrayOf(generateSequence(n))), 0, 0) ]

\* const sequenceData = this.dataManager.addSequence(num, sequence) of
\* handleCompare: the record for start n, with the id and colour a
\* DataManager that has handed out `count` records gives it
SuppliedRecord(n, count, time) ==
    [ RecordOfStart[n] EXCEPT !.id = IdOf(time, count + 1),
                              !.color = generateColor(count),
                              !.createdAt = time ]

\* the object addSequence pushes: the record spread, then id, addedAt,
\* patterns, cycles and convergenceAnalysis; the id of a record of the
\* DataManager is never empty, so the fallback id is not taken
AnalyzerRecord(catalog, record, time) ==
    [ id                  |-> record.id,
      startNumber         |-> record.startNumber,
      sequence            |-> record.sequence,
      statistics          |-> record.statistics,
      color               |-> record.color,
      createdAt           |-> record.createdAt,
      addedAt             |-> time,
      patterns            |-> detectPatterns(catalog, record),
      cycles              |-> findCycles(record.sequence),
      convergenceAnalysis |-> analyzeConvergence(record.sequence) ]

\* init(): initializePatterns(); isInitialized is true exactly when the
\* catalog is set.  The application calls it once, before any other call
\* on the analyzer (main.js:38); an analyzer that is never initialised is
\* covered as well
InitAnalyzer ==
    /\ lastQuery.op = "constructor"
    /\ analyzerPatterns' = PatternCatalog
    /\ lastQuery' = [op |-> "init"]
    /\ UNCHANGED <<analyzerSequences, analyzerStatistics, supplied, calls>>

\* addSequence(sequence)
AnalyzerAddSequence(record) ==
    /\ supplied < MaxSupplied
    /\ supplied' = supplied + 1
    /\ analyzerSequences' =
          Append(analyzerSequences, AnalyzerRecord(analyzerPatterns, record, now))
    /\ analyzerStatistics' = updateStatistics(analyzerPatterns, analyzerSequences')
    /\ lastQuery' = [op |-> "addSequence"]
    /\ UNCHANGED <<analyzerPatterns, calls>>

\* a removal that leaves the cached statistics as they were
AnalyzerRemoveSequenceNoUpdate(sequenceId) ==
    /\ Counted
    /\ analyzerSequences' =
          SelectSeq(analyzerSequences, LAMBDA seq : seq.id # sequenceId)
    /\ analyzerStatistics' = analyzerStatistics
    /\ lastQuery' = [op |-> "removeSequence"]
    /\ UNCHANGED <<analyzerPatterns, supplied>>

\* removeSequence(sequenceId)
AnalyzerRemoveSequence(sequenceId) ==
    /\ Counted
    /\ analyzerSequences' =
          SelectSeq(analyzerSequences, LAMBDA seq : seq.id # sequenceId)
    /\ analyzerStatistics' = updateStatistics(analyzerPatterns, analyzerSequences')
    /\ lastQuery' = [op |-> "removeSequence"]
    /\ UNCHANGED <<analyzerPatterns, supplied>>

\* clearSequences()
AnalyzerClearSequences ==
    /\ Counted
    /\ analyzerSequences' = <<>>
    /\ analyzerStatistics' = updateStatistics(analyzerPatterns, analyzerSequences')
    /\ lastQuery' = [op |-> "clearSequences"]
    /\ UNCHANGED <<analyzerPatterns, supplied>>

\* a call that reads the analyzer and returns a result
Query(op, result) ==
    /\ Counted
    /\ lastQuery' = [op |-> op, result |-> result,
                     again |-> (lastQuery.op = op)]
    /\ UNCHANGED <<analyzerSequences, analyzerPatterns, analyzerStatistics,
                   supplied>>

\* calculateCorrelations()
CalculateCorrelationsCall ==
    Query("calculateCorrelations", calculateCorrelations(analyzerSequences))

\* findAnomalies()
FindAnomaliesCall ==
    Query("findAnomalies", findAnomalies(analyzerSequences))

\* exportComparisonData(format)
ExportComparisonDataCall(format) ==
    /\ lastQuery' =
          [ op |-> "exportComparisonData", format |-> format,
            result |-> exportComparisonData(format,
                          generateComparisonReport(analyzerPatterns, analyzerSequences,
                                                   analyzerStatistics, now)) ]
    /\ Counted
    /\ UNCHANGED <<analyzerSequences, analyzerPatterns, analyzerStatistics,
                   supplied>>

\* the sequences analyzeConvergence is called with on its own
ConvergenceInputs ==
    UNION { [1..len -> 1..MaxElement] : len \in 0..MaxLength }

\* analyzeConvergence(sequence), called on its own on a new analyzer; the
\* function reads nothing but its argument
AnalyzeConvergenceCall(s) ==
    /\ lastQuery.op = "constructor"
    /\ lastQuery' = [op |-> "analyzeConvergence", sequence |-> s,
                     result |-> analyzeConvergence(s)]
    /\ UNCHANGED <<analyzerSequences, analyzerPatterns, analyzerStatistics,
                   supplied, calls>>


\* the elements of the sequences findCycles and detectPatterns are called
\* with on their own
ScannedElements == {1, 2, 3}

\* the sequences findCycles and detectPatterns are called with on their own
ScannedInputs ==
    UNION { [1..len -> ScannedElements] : len \in 0..MaxScanned }

\* findCycles(sequence), called on its own; the function reads nothing but
\* its argument
FindCyclesCall(s) ==
    /\ lastQuery.op = "constructor"
    /\ lastQuery' = [op |-> "findCycles", sequence |-> s,
                     result |-> findCycles(s)]
    /\ UNCHANGED <<analyzerSequences, analyzerPatterns, analyzerStatistics,
                   supplied, calls>>

\* detectPatterns(sequence), called on its own with the record the
\* DataManager builds for a sequence, which is never empty
DetectPatternsCall(s) ==
    /\ lastQuery.op \in {"constructor", "init"}
    /\ Len(s) > 0
    /\ lastQuery' =
          [ op |-> "detectPatterns", sequence |-> s,
            result |-> detectPatterns(analyzerPatterns,
                          SequenceData(IdOf(now, 1), AddInput(s[1], ArrayOf(s)), 0, now)) ]
    /\ UNCHANGED <<analyzerSequences, analyzerPatterns, analyzerStatistics,
                   supplied, calls>>

-----------------------------------------------------------------------------
vars == <<genVars, storeVars, analyzerVars>>

\* no generateSequence call has been made
GenInit ==
    /\ gpc = "idle"
    /\ startNumber = Fraction(0, 1)
    /\ sequence = <<>>
    /\ current = 0
    /\ iterations = 0
    /\ warned = FALSE
    /\ statsArg = NotArray(<<>>)
    /\ statsOut = [status |-> "none"]

\* the DataManager as its constructor leaves it
StoreInit ==
    /\ sequences = <<>>
    /\ currentSequenceId = 0
    /\ eventListeners = [e \in Events |-> <<>>]
    /\ now = 0
    /\ lastCall = [op |-> "constructor"]
    /\ notified = <<>>
    /\ issued = {}
    /\ calls = 0

\* the ComparisonAnalyzer as its constructor leaves it
AnalyzerConstructed ==
    /\ analyzerSequences = <<>>
    /\ analyzerPatterns = <<>>
    /\ analyzerStatistics = EmptyObject
    /\ supplied = 0
    /\ lastQuery = [op |-> "constructor"]

Init == GenInit /\ StoreInit /\ AnalyzerConstructed

GenNext ==
    \/ \E x \in StartInputs : GenerateSequenceCall(x)
    \/ GenerateSequenceLoop
    \/ GenerateSequenceReturn
    \/ CalculateStatisticsOfResult
    \/ \E a \in StatInputs : CalculateStatisticsOfInput(a)

\* the calls on the DataManager
Next ==
    \/ AddPlain
    \/ \E in \in OtherInputs : AddOther(in)
    \/ \E id \in RemoveArgs : RemoveSequence(id)
    \/ ClearSequences
    \/ \E e \in Events, cb \in Callbacks : AddEventListener(e, cb)
    \/ Tick

\* the DataManager under any order of calls
Spec == Init /\ [][Next]_vars

\* the calls on the DataManager that add, remove and compare records
NextCompare ==
    \/ AddPlain
    \/ \E in \in OtherInputs : AddOther(in)
    \/ \E id \in RemoveArgs : RemoveSequence(id)
    \/ \E id1 \in CompareArgs, id2 \in CompareArgs : CompareSequences(id1, id2)

\* the DataManager under any order of additions, removals and comparisons
SpecCompare == Init /\ [][NextCompare]_vars

\* the calls on the DataManager that add, remove, clear and import records
NextImport ==
    \/ AddPlain
    \/ \E in \in OtherInputs : AddOther(in)
    \/ \E id \in RemoveArgs : RemoveSequence(id)
    \/ ClearSequences
    \/ \E data \in ImportInputs : ImportFromJSON(data)

\* the DataManager under any order of those calls
SpecImport == Init /\ [][NextImport]_vars

\* what a call on the ComparisonAnalyzer leaves alone
AnalyzerFrame ==
    UNCHANGED <<genVars, sequences, currentSequenceId, eventListeners, now,
                lastCall, notified, issued>>

\* the calls on the ComparisonAnalyzer
NextAnalyzer ==
    \/ InitAnalyzer /\ AnalyzerFrame
    \/ \E n \in NextStarts :
          AnalyzerAddSequence(SuppliedRecord(n, supplied, now)) /\ AnalyzerFrame
    \/ \E id \in AnalyzerRemoveArgs :
          AnalyzerRemoveSequence(id) /\ AnalyzerFrame
    \/ AnalyzerClearSequences /\ AnalyzerFrame
    \/ CalculateCorrelationsCall /\ AnalyzerFrame
    \/ FindAnomaliesCall /\ AnalyzerFrame
    \/ \E format \in Formats : ExportComparisonDataCall(format) /\ AnalyzerFrame

\* the ComparisonAnalyzer under any order of calls
SpecAnalyzer == Init /\ [][NextAnalyzer]_vars

\* the calls on the ComparisonAnalyzer that hand records over and look for
\* anomalies among them
NextAnomalies ==
    \/ InitAnalyzer /\ AnalyzerFrame
    \/ \E n \in NextAnomalyStarts :
          AnalyzerAddSequence(SuppliedRecord(n, supplied, now)) /\ AnalyzerFrame
    \/ FindAnomaliesCall /\ AnalyzerFrame

\* the ComparisonAnalyzer under any order of those calls
SpecAnomalies == Init /\ [][NextAnomalies]_vars

\* findCycles and detectPatterns called on their own with any of the
\* sequences
NextCycles ==
    \/ InitAnalyzer /\ AnalyzerFrame
    \/ /\ lastQuery.op = "constructor"
       /\ \E s \in ScannedInputs : FindCyclesCall(s) /\ AnalyzerFrame
    \/ /\ lastQuery.op \in {"constructor", "init"}
       /\ \E s \in ScannedInputs : DetectPatternsCall(s) /\ AnalyzerFrame

\* findCycles and detectPatterns under any order of calls
SpecCycles == Init /\ [][NextCycles]_vars

\* analyzeConvergence called on its own with any of the sequences
NextConvergence ==
    \E s \in ConvergenceInputs : AnalyzeConvergenceCall(s) /\ AnalyzerFrame

\* analyzeConvergence under any order of calls
SpecConvergence == Init /\ [][NextConvergence]_vars

\* generateSequence and calculateStatistics under any order of calls
SpecGen == Init /\ [][GenNext]_vars

\* the loop of generateSequence is never suspended
FairSpecGen ==
    SpecGen /\ WF_vars(GenerateSequenceLoop) /\ WF_vars(GenerateSequenceReturn)

-----------------------------------------------------------------------------
(***************************************************************************)
(* Properties of generateSequence and calculateStatistics (SpecGen).       *)
(***************************************************************************)
\* the start value of the call in progress, when the call was accepted
StartValue == startNumber.num \div startNumber.den

\* the call in progress was given a positive integer
StartIsPositiveInteger ==
    \E k \in 1..(MaxStart + 1) : k * startNumber.den = startNumber.num

\* calculateStatistics has returned the statistics of the generated sequence
StatsOfResult ==
    /\ gpc = "returned"
    /\ statsOut.status = "returned"
    /\ statsArg = ArrayOf(sequence)

\* C2: every adjacent pair (a, b) of the sequence generateSequence builds
\* and returns obeys the step rule: b = a/2 for even a, b = 3a+1 for odd a.
C2_StepRule ==
    \A i \in 1..(Len(sequence) - 1) :
        LET a == sequence[i]
            b == sequence[i + 1]
        IN  /\ (a % 2 = 0) => (2 * b = a)
            /\ (a % 2 = 1) => (b = 3 * a + 1)

\* generateSequence(27) has returned: 111 pairs, odd and even ones
C2_Witness ==
    /\ gpc = "returned"
    /\ StartValue = 27
    /\ Len(sequence) = 112
    /\ \E i \in 1..(Len(sequence) - 1) : sequence[i] % 2 = 1
    /\ \E i \in 1..(Len(sequence) - 1) : sequence[i] % 2 = 0

\* C3: the first element of generateSequence(n) is n, and when the
\* statistics of that sequence report hasReachedOne its last element is 1.
C3_FirstAndLast ==
    /\ gpc \in {"loop", "returned"} =>
          /\ Len(sequence) >= 1
          /\ sequence[1] * startNumber.den = startNumber.num
    /\ (StatsOfResult /\ statsOut.stats.hasReachedOne) => Last(sequence) = 1

\* the statistics of a returned sequence report hasReachedOne
C3_Witness ==
    /\ StatsOfResult
    /\ statsOut.stats.hasReachedOne
    /\ StartValue = 7
    /\ Len(sequence) > 1

\* C4: generateSequence throws, and returns no sequence, for every start
\* that is not a positive integer: zero, a negative or a non-integer.
C4_RejectsBadStart ==
    (gpc # "idle" /\ ~StartIsPositiveInteger) =>
        (gpc = "threw" /\ sequence = <<>>)

\* generateSequence has thrown for the non-integer 3/2
C4_Witness ==
    /\ gpc = "threw"
    /\ startNumber = Fraction(3, 2)
    /\ sequence = <<>>

\* what C5 says of every state of a call
C5_Bounded ==
    /\ iterations <= maxIterations
    /\ gpc \in {"loop", "returned"} =>
          /\ Len(sequence) = iterations + 1
          /\ Len(sequence) <= maxIterations + 1
          /\ \A i \in 1..(Len(sequence) - 1) : sequence[i] # 1
    /\ gpc = "returned" => (current = 1 \/ iterations = maxIterations)

\* C5: generateSequence runs at most maxIterations loop iterations and
\* then returns: it stops at the first step at which the current value is 1
\* or the iteration count is the cap, with at most cap + 1 elements.
C5_Terminates == [] C5_Bounded /\ ((gpc = "loop") ~> (gpc = "returned"))

\* a call stopped by the cap, short of 1, with cap + 1 elements
C5_Witness ==
    /\ gpc = "returned"
    /\ iterations = maxIterations
    /\ Len(sequence) = maxIterations + 1
    /\ current # 1

C7_RejectsEmpty ==
    (statsOut.status # "none" /\ (~statsArg.isArray \/ statsArg.items = <<>>)) =>
        statsOut = [status |-> "threw"]

\* calculateStatistics has thrown for the empty list
C7_Witness ==
    /\ statsArg = ArrayOf(<<>>)
    /\ statsOut.status = "threw"

\* C8: the documented known values: 27 gives length 112, maxValue 9232 and
\* hasReachedOne; 1 gives [1], length 1, steps 0 and hasReachedOne; 6 gives
\* [6,3,10,5,16,8,4,2,1], length 9.
C8_KnownValues ==
    StatsOfResult =>
        /\ StartValue = 27 =>
              /\ statsOut.stats.length = 112
              /\ statsOut.stats.maxValue = 9232
              /\ statsOut.stats.hasReachedOne
        /\ StartValue = 1 =>
              /\ sequence = <<1>>
              /\ statsOut.stats.length = 1
              /\ statsOut.stats.steps = 0
              /\ statsOut.stats.hasReachedOne
        /\ StartValue = 6 =>
              /\ sequence = <<6, 3, 10, 5, 16, 8, 4, 2, 1>>
              /\ statsOut.stats.length = 9

\* the statistics of generateSequence(27) have been computed
C8_Witness ==
    /\ StatsOfResult
    /\ startNumber = Fraction(27, 1)
    /\ statsOut.stats.steps = 111

-----------------------------------------------------------------------------
(***************************************************************************)
(* Properties of the DataManager (Spec).                                   *)
(***************************************************************************)
\* the step is an addSequence call that returned its record
AddReturned ==
    /\ currentSequenceId' # currentSequenceId
    /\ lastCall'.op = "addSequence"
    /\ ~lastCall'.threw

\* the stored record that was created first: the one of the least counter
Earliest(list) ==
    CHOOSE r \in { list[i] : i \in 1..Len(list) } :
        \A i \in 1..Len(list) : r.id[2] <= list[i].id[2]

\* what C1 says of an addSequence call on a store of maxSequences records
C1_EvictsEarliest ==
    (AddReturned /\ Len(sequences) = maxSequences) =>
        /\ Len(sequences') = maxSequences
        /\ Earliest(sequences).id \notin IdsIn(sequences')
        /\ lastCall'.id \notin IdsIn(sequences)
        /\ sequences'[maxSequences].id = lastCall'.id
        /\ \A i \in 1..(maxSequences - 1) : sequences'[i] = sequences[i + 1]

\* C1: the store never holds more than 10 records, and an addSequence on a
\* store of 10 records drops the record inserted earliest, puts the new one
\* last and keeps the other 9 in their order.
C1_Capacity ==
    [] (Len(sequences) <= maxSequences) /\ [][C1_EvictsEarliest]_vars

\* addSequence has returned from a call made on a store of 10 records
C1_Witness ==
    /\ lastCall.op = "addSequence"
    /\ lastCall.full
    /\ ~lastCall.threw
    /\ Len(sequences) = maxSequences
    /\ Last(sequences).id = lastCall.id

\* C9: an id addSequence assigns differs from every id the store assigned
\* before, whether that record is still held or not; so no two records
\* held at once share an id.
C9_UniqueIds ==
    /\ [] /\ IdsIn(sequences) \subseteq issued
          /\ \A i, j \in 1..Len(sequences) :
                sequences[i].id = sequences[j].id => i = j
    /\ [][currentSequenceId' # currentSequenceId =>
            /\ lastCall'.id \notin issued
            /\ lastCall'.id \in issued']_vars

\* an id has been assigned after earlier records left the store
C9_Witness ==
    /\ lastCall.op = "addSequence"
    /\ ~lastCall.threw
    /\ Len(sequences) >= 2
    /\ Cardinality(issued) > Len(sequences)
    /\ Last(sequences).id = lastCall.id

\* the positions in notified of the invocations for an event
InvocationsOf(event) == { i \in 1..Len(notified) : notified[i].event = event }

\* C10: an addSequence on a store of 10 records notifies the observers of
\* the removal of the evicted record and of the addition, removal first.
C10_EvictionNotified ==
    ( /\ lastCall.op = "addSequence"
      /\ lastCall.full
      /\ ~lastCall.threw
      /\ eventListeners["sequenceRemoved"] # <<>>
      /\ eventListeners["sequenceAdded"] # <<>> ) =>
        /\ InvocationsOf("sequenceRemoved") # {}
        /\ InvocationsOf("sequenceAdded") # {}
        /\ \A i \in InvocationsOf("sequenceRemoved"),
              j \in InvocationsOf("sequenceAdded") : i < j

-----------------------------------------------------------------------------
\* a step that is a removeSequence call
RemoveStep ==
    /\ lastCall'.op = "removeSequence"
    /\ calls' = calls + 1
    /\ now' = now

\* C11: removeSequence(id) returns true exactly when a record with that id
\* is in the store when it is called; that record is then gone and the
\* others keep their order; otherwise it returns false, the store is as it
\* was and no observer is notified
C11_RemoveSequence ==
    [][ RemoveStep =>
          LET id == lastCall'.id
          IN  IF id \in IdsIn(sequences)
              THEN /\ lastCall'.result
                   /\ sequences' = SelectSeq(sequences, LAMBDA r : r.id # id)
                   /\ Len(sequences') = Len(sequences) - 1
              ELSE /\ ~lastCall'.result
                   /\ sequences' = sequences
                   /\ notified' = <<>> ]_vars

\* a record between two others has been removed
C11_Witness ==
    /\ lastCall.op = "removeSequence"
    /\ lastCall.result
    /\ \E i \in 1..(Len(sequences) - 1) :
          /\ sequences[i].id[2] < lastCall.id[2]
          /\ lastCall.id[2] < sequences[i + 1].id[2]

-----------------------------------------------------------------------------
\* a step that is a compareSequences call
CompareStep ==
    /\ lastCall'.op = "compareSequences"
    /\ calls' = calls + 1

\* C12: compareSequences(idA, idB) fails whenever either id is not in the
\* store when it is called, ids of evicted or removed records included, and
\* a failing call leaves the store as it was
C12_CompareFails ==
    [][ CompareStep =>
          /\ ( lastCall'.id1 \notin IdsIn(sequences)
                 \/ lastCall'.id2 \notin IdsIn(sequences) ) => lastCall'.threw
          /\ lastCall'.threw =>
                /\ sequences' = sequences
                /\ currentSequenceId' = currentSequenceId
                /\ eventListeners' = eventListeners ]_vars

\* a comparison of a record in the store with one that was stored and is
\* no longer there has failed
C12_Witness ==
    /\ lastCall.op = "compareSequences"
    /\ lastCall.threw
    /\ lastCall.id1 \in IdsIn(sequences)
    /\ lastCall.id2 \in issued \ IdsIn(sequences)

-----------------------------------------------------------------------------
\* the fields of the record the store holds
StoreRecordFields ==
    {"id", "startNumber", "sequence", "statistics", "color", "createdAt", "patterns"}

-----------------------------------------------------------------------------
\* C14: the id, colour, start number, sequence and statistics of a record
\* in the store are the same in every later state in which it is still
\* there
C14_RecordsKeepFields ==
    [][ \A i \in 1..Len(sequences) :
          sequences[i].id \in IdsIn(sequences') =>
            \E j \in 1..Len(sequences') :
                /\ sequences'[j].id = sequences[i].id
                /\ sequences'[j].color = sequences[i].color
                /\ sequences'[j].startNumber = sequences[i].startNumber
                /\ sequences'[j].sequence = sequences[i].sequence
                /\ sequences'[j].statistics = sequences[i].statistics ]_vars

\* after an eviction the records left have moved up one place and still
\* have the colour they were given
C14_Witness ==
    /\ lastCall.op = "addSequence"
    /\ lastCall.full
    /\ \E i \in 1..Len(sequences) : sequences[i].color # generateColor(i - 1)

-----------------------------------------------------------------------------
\* the two value lists calculateCorrelations hands to calculateCorrelation
\* for a pair
PairValues(pair, seqs) ==
    LET startNumbers == [i \in 1..Len(seqs) |-> seqs[i].startNumber]
        lengths      == [i \in 1..Len(seqs) |-> seqs[i].statistics.length]
        maxValues    == [i \in 1..Len(seqs) |-> seqs[i].statistics.maxValue]
        steps        == [i \in 1..Len(seqs) |-> seqs[i].statistics.steps]
    IN  CASE pair = "lengthVsMaxValue"      -> <<lengths, maxValues>>
          [] pair = "startNumberVsLength"   -> <<startNumbers, lengths>>
          [] pair = "startNumberVsMaxValue" -> <<startNumbers, maxValues>>
          [] pair = "stepsVsLength"         -> <<steps, lengths>>

\* a list whose values are all the same: its variance is 0
AllEqual(x) == \A i \in 1..Len(x), j \in 1..Len(x) : x[i] = x[j]

\* the denominator of a pair is 0: one of its two variances is
ZeroDenominator(pair, seqs) ==
    AllEqual(PairValues(pair, seqs)[1]) \/ AllEqual(PairValues(pair, seqs)[2])

-----------------------------------------------------------------------------
\* C16: with at least 2 sequences every coefficient of calculateCorrelations
\* lies in [-1, 1]: over the integers, the square of the numerator
\* n*sumXY - sumX*sumY is at most the product
\* (n*sumX2 - sumX^2) * (n*sumY2 - sumY^2) the square root is taken of
C16_WithinOne ==
    (lastQuery.op = "calculateCorrelations" /\ Len(analyzerSequences) >= 2) =>
        \A pair \in CorrelationPairs :
            LET x == PairValues(pair, analyzerSequences)[1]
                y == PairValues(pair, analyzerSequences)[2]
                r == lastQuery.result[pair]
            IN  /\ r.numerator * r.numerator <= r.radicand
                /\ ~ZeroDenominator(pair, analyzerSequences) =>
                      /\ Radicand(x, y) > 0
                      /\ Numerator(x, y) * Numerator(x, y) <= Radicand(x, y)
                      /\ Numerator(x, y) # 0 =>
                            r = [numerator |-> Numerator(x, y), radicand |-> Radicand(x, y)]

\* a coefficient strictly between 0 and 1 in size has been returned
C16_Witness ==
    /\ lastQuery.op = "calculateCorrelations"
    /\ Len(analyzerSequences) >= 3
    /\ \E pair \in CorrelationPairs :
          LET r == lastQuery.result[pair]
          IN  r.numerator # 0 /\ r.numerator * r.numerator < r.radicand

-----------------------------------------------------------------------------
\* C17: findAnomalies returns the empty list when the analyzer holds fewer
\* than 3 sequences, leaves the analyzer's sequences, catalog and statistics
\* as they were, and returns the same list when called twice in a row
C17_FindAnomalies ==
    [][ (lastQuery'.op = "findAnomalies" /\ calls' = calls + 1) =>
          /\ Len(analyzerSequences) < 3 => lastQuery'.result = <<>>
          /\ analyzerSequences' = analyzerSequences
          /\ analyzerPatterns' = analyzerPatterns
          /\ analyzerStatistics' = analyzerStatistics
          /\ lastQuery.op = "findAnomalies" =>
                lastQuery'.result = lastQuery.result ]_vars

\* findAnomalies was called twice in a row and found anomalies
C17_Witness ==
    /\ lastQuery.op = "findAnomalies"
    /\ lastQuery.again
    /\ Len(lastQuery.result) > 0

-----------------------------------------------------------------------------
-----------------------------------------------------------------------------
(***************************************************************************)
(* Reading a CSV text back: rows end at line breaks and cells at commas    *)
(* that stand outside double quotes, and a cell loses the quotes around    *)
(* it.                                                                     *)
(***************************************************************************)

\* place i of the text stands outside double quotes
OutsideQuotes(text, i) ==
    Cardinality({ j \in 1..(i - 1) : text[j] = "\"" }) % 2 = 0

\* the places where a separator splits the text
Breaks(text, separator) ==
    { i \in 1..Len(text) : text[i] = separator /\ OutsideQuotes(text, i) }

\* the pieces of the text between those places, in order
Pieces(text, separator) ==
    LET breaks == Breaks(text, separator)
        count  == Cardinality(breaks)
        at(k)  == IF k = 0 THEN 0
                  ELSE IF k = count + 1 THEN Len(text) + 1
                  ELSE CHOOSE i \in breaks :
                          Cardinality({ j \in breaks : j < i }) = k - 1
    IN  [ k \in 1..(count + 1) |-> SubSeq(text, at(k - 1) + 1, at(k) - 1) ]

\* a cell without the quotes around it
Unquoted(cell) ==
    IF Len(cell) >= 2 /\ cell[1] = "\"" /\ cell[Len(cell)] = "\""
    THEN SubSeq(cell, 2, Len(cell) - 1)
    ELSE cell

\* the rows of a CSV text, each the list of its cells
ParseCSV(text) ==
    LET rows == Pieces(text, "\n")
    IN  [ r \in 1..Len(rows) |->
            LET cells == Pieces(rows[r], ",")
            IN  [ c \in 1..Len(cells) |-> Unquoted(cells[c]) ] ]

\* the cell is a natural number written in decimal digits
IsNumberText(cell) ==
    /\ Len(cell) > 0
    /\ \A i \in 1..Len(cell) : \E digit \in 0..9 : DigitChars[digit + 1] = cell[i]

\* the number a cell of decimal digits stands for
RECURSIVE ParseNumber(_)
ParseNumber(cell) ==
    IF Len(cell) = 0 THEN 0
    ELSE 10 * ParseNumber(SubSeq(cell, 1, Len(cell) - 1))
           + (CHOOSE digit \in 0..9 : DigitChars[digit + 1] = cell[Len(cell)])

\* the cell is the id string of that id
IsIdOf(cell, id) ==
    \E k \in 3..(Len(cell) - 1) :
        /\ cell[1] = "seq_"
        /\ cell[k] = "_"
        /\ IsNumberText(SubSeq(cell, 2, k - 1))
        /\ IsNumberText(SubSeq(cell, k + 1, Len(cell)))
        /\ id = <<ParseNumber(SubSeq(cell, 2, k - 1)),
                  ParseNumber(SubSeq(cell, k + 1, Len(cell)))>>

\* C19: the csv export is one header row followed by exactly one row per
\* held sequence, in analyzer order; read back, row i gives the id, the
\* length and the maxValue of the i-th per-sequence summary of the report,
\* so the ids read back are the ids held and each id has its length and
\* maxValue
C19_CsvRoundTrip ==
    (lastQuery.op = "exportComparisonData" /\ lastQuery.format = "csv") =>
        LET rows      == ParseCSV(lastQuery.result.text)
            summaries == Summaries(analyzerSequences)
        IN  /\ Len(rows) = 1 + Len(summaries)
            /\ rows[1] = headers
            /\ \A i \in 1..Len(summaries) :
                  /\ Len(rows[i + 1]) = Len(headers)
                  /\ IsIdOf(rows[i + 1][1], summaries[i].id)
                  /\ IsNumberText(rows[i + 1][3])
                  /\ ParseNumber(rows[i + 1][3]) = summaries[i].length
                  /\ IsNumberText(rows[i + 1][4])
                  /\ ParseNumber(rows[i + 1][4]) = summaries[i].maxValue

\* a csv export of sequences of different lengths, one of them with
\* several pattern tags in its Patterns cell
C19_Witness ==
    /\ lastQuery.op = "exportComparisonData"
    /\ lastQuery.format = "csv"
    /\ Len(analyzerSequences) >= 2
    /\ \E i \in 1..Len(analyzerSequences) : Len(analyzerSequences[i].patterns) >= 2
    /\ \E i, j \in 1..Len(analyzerSequences) :
          /\ analyzerSequences[i].statistics.length >= 10
          /\ analyzerSequences[j].statistics.length < 10

-----------------------------------------------------------------------------
\* the three convergence types
ConvergenceTypes == {"smooth", "oscillating", "irregular"}

-----------------------------------------------------------------------------
\* the values in ascending order: the least one first, then the rest
RECURSIVE SortAscending(_)
SortAscending(values) ==
    IF Len(values) = 0 THEN <<>>
    ELSE LET least == MinOf(values)
             place == IndexOf(values, least) + 1
         IN  <<least>> \o SortAscending(SubSeq(values, 1, place - 1)
                                          \o SubSeq(values, place + 1, Len(values)))

\* the values findAnomalies looks at for a type of anomaly
ValuesOf(type, seqs) ==
    [ i \in 1..Len(seqs) |->
        IF type = "length" THEN seqs[i].statistics.length
        ELSE seqs[i].statistics.maxValue ]

\* Q1 and Q3 of the values: the elements at indices floor(0.25*n) and
\* floor(0.75*n) of the values in ascending order
QuartileOne(values) == SortAscending(values)[(Len(values) \div 4) + 1]
QuartileThree(values) == SortAscending(values)[((3 * Len(values)) \div 4) + 1]

\* the value lies below Q1 - 1.5*IQR or above Q3 + 1.5*IQR, doubled
OutsideBounds(value, values) ==
    LET q1  == QuartileOne(values)
        q3  == QuartileThree(values)
        iqr == q3 - q1
    IN  2 * value < 2 * q1 - 3 * iqr \/ 2 * value > 2 * q3 + 3 * iqr

-----------------------------------------------------------------------------
-----------------------------------------------------------------------------
\* the block of L values at s (zero-based) is immediately followed by an
\* identical copy
FollowedByCopy(seq, L, s) ==
    /\ s + 2 * L <= Len(seq)
    /\ \A idx \in 1..L : seq[s + idx] = seq[s + L + idx]

\* r consecutive copies of the block of L values at s lie inside seq
CopiesInside(seq, L, s, r) ==
    /\ s + L * r <= Len(seq)
    /\ \A c \in 1..(r - 1) : \A idx \in 1..L : seq[s + idx] = seq[s + c * L + idx]

\* C22: findCycles returns exactly one record for every pair (L, s) with
\* 2 <= L <= min(20, floor(length/2)) and 0 <= s <= length - 2L whose block
\* is immediately followed by an identical copy, and none for any other
\* pair; the record's repeats is the largest number r >= 2 of consecutive
\* copies of the block from s on, its totalLength is L*r, and
\* s + L*r <= length
C22_FindCycles ==
    lastQuery.op = "findCycles" =>
        LET seq    == lastQuery.sequence
            result == lastQuery.result
            records(L, s) == { k \in 1..Len(result) :
                                 result[k].length = L /\ result[k].start = s }
        IN  /\ \A L \in 0..(Len(seq) + 1), s \in 0..Len(seq) :
                  Cardinality(records(L, s)) =
                      IF /\ 2 <= L /\ L <= Min(20, Len(seq) \div 2)
                         /\ s <= Len(seq) - 2 * L
                         /\ FollowedByCopy(seq, L, s)
                      THEN 1 ELSE 0
            /\ \A k \in 1..Len(result) :
                  /\ result[k].length \in 2..Len(seq)
                  /\ result[k].start \in 0..Len(seq)
                  /\ result[k].repeats >= 2
                  /\ CopiesInside(seq, result[k].length, result[k].start, result[k].repeats)
                  /\ ~CopiesInside(seq, result[k].length, result[k].start,
                                   result[k].repeats + 1)
                  /\ result[k].totalLength = result[k].length * result[k].repeats
                  /\ result[k].start + result[k].totalLength <= Len(seq)
                  /\ result[k].pattern =
                        SubSeq(seq, result[k].start + 1, result[k].start + result[k].length)

\* a block repeated three times was found, and a later block that has room
\* for two copies only
C22_Witness ==
    /\ lastQuery.op = "findCycles"
    /\ \E k \in 1..Len(lastQuery.result) : lastQuery.result[k].repeats = 3
    /\ \E k \in 1..Len(lastQuery.result) :
          lastQuery.result[k].repeats = 2 /\ lastQuery.result[k].start > 0

-----------------------------------------------------------------------------
\* the names of the tags detectPatterns returned
TagNames(tags) == { tags[k].name : k \in 1..Len(tags) }

\* C24: detectPatterns of an initialised analyzer assigns the 'Cyclic' tag
\* to a record exactly when its sequence has a block of some length L in
\* 2..10 that is immediately followed by an identical copy, for sequences of
\* every length, those of 4 or 5 elements such as [a,b,a,b] included
C24_CyclicTag ==
    (lastQuery.op = "detectPatterns" /\ analyzerPatterns # <<>>) =>
        ( "Cyclic" \in TagNames(lastQuery.result)
            <=> \E L \in 2..10, s \in 0..Len(lastQuery.sequence) :
                    FollowedByCopy(lastQuery.sequence, L, s) )

-----------------------------------------------------------------------------
\* the trailing window: the last min(10, floor(0.2*length)) elements
TrailingWindow(seq) ==
    SubSeq(seq, Len(seq) - Min(10, Len(seq) \div 5) + 1, Len(seq))

\* the window has a last element, is non-increasing, and its last element
\* is at most half of its maximum
WindowIsSmooth(window) ==
    /\ Len(window) > 0
    /\ \A i \in 2..Len(window) : window[i] <= window[i - 1]
    /\ 2 * window[Len(window)] <= MaxOf(window)

\* more than half of the interior points are strict local extrema
MostlyExtrema(seq) ==
    2 * Cardinality({ i \in 2..(Len(seq) - 1) :
            \/ (seq[i] > seq[i - 1] /\ seq[i] > seq[i + 1])
            \/ (seq[i] < seq[i - 1] /\ seq[i] < seq[i + 1]) }) > Len(seq) - 2

\* the claim's classification of a sequence of at least 3 elements
ClassOf(seq) ==
    IF WindowIsSmooth(TrailingWindow(seq)) THEN "smooth"
    ELSE IF MostlyExtrema(seq) THEN "oscillating"
    ELSE "irregular"

\* C23: analyzeConvergence classifies a sequence of at least 3 elements
\* 'smooth' exactly when its trailing window (the last
\* min(10, floor(0.2*length)) elements) is non-increasing with a last
\* element at most half of the window's maximum, otherwise 'oscillating'
\* exactly when more than half of the interior points are strict local
\* extrema, otherwise 'irregular'; the convergenceSpeed is
\* 1 - oscillationLevel, 0.5 and 0.3 respectively
C23_Classification ==
    (lastQuery.op = "analyzeConvergence" /\ Len(lastQuery.sequence) >= 3) =>
        /\ lastQuery.result.convergenceType = ClassOf(lastQuery.sequence)
        /\ lastQuery.result.convergenceType = "oscillating" =>
              lastQuery.result.convergenceSpeed = <<1, 2>>
        /\ lastQuery.result.convergenceType = "irregular" =>
              lastQuery.result.convergenceSpeed = <<3, 10>>
        /\ lastQuery.result.convergenceType = "smooth" =>
              /\ lastQuery.result.convergenceSpeed[2] = lastQuery.result.oscillationLevel[2]
              /\ lastQuery.result.convergenceSpeed[1] + lastQuery.result.oscillationLevel[1]
                    = lastQuery.result.oscillationLevel[2]

-----------------------------------------------------------------------------
\* the invocations are one per callback registered for the event, in
\* registration order
OncePerCallback(invocations, event) ==
    /\ Len(invocations) = Len(eventListeners[event])
    /\ \A i \in 1..Len(invocations) :
          /\ invocations[i].event = event
          /\ invocations[i].callback = eventListeners[event][i]

\* C25: when the store publishes an event, every callback registered for
\* it is invoked exactly once, in registration order, before the operation
\* returns; a callback that throws keeps no later callback from being
\* invoked, and the operation (addSequence, removeSequence, clearSequences)
\* neither fails nor undoes its change
C25_Notifies ==
    [][ /\ AddReturned =>
              /\ OncePerCallback(notified', "sequenceAdded")
              /\ Len(sequences') >= 1
              /\ Last(sequences').id = lastCall'.id
        /\ (RemoveStep /\ lastCall'.id \in IdsIn(sequences)) =>
              /\ lastCall'.result
              /\ OncePerCallback(notified', "sequenceRemoved")
              /\ lastCall'.id \notin IdsIn(sequences')
        /\ (lastCall'.op = "clearSequences" /\ calls' = calls + 1) =>
              /\ OncePerCallback(notified', "sequencesCleared")
              /\ sequences' = <<>> ]_vars

\* addSequence has returned its record after a callback that throws and,
\* after it, a callback that does not were both invoked
C25_Witness ==
    /\ lastCall.op = "addSequence"
    /\ ~lastCall.threw
    /\ Len(notified) >= 2
    /\ notified[1].threw
    /\ ~notified[2].threw
    /\ Last(sequences).id = lastCall.id

-----------------------------------------------------------------------------
\* the step is an addSequence call that threw
AddThrew ==
    /\ currentSequenceId' # currentSequenceId
    /\ lastCall'.op = "addSequence"
    /\ lastCall'.threw

\* C26: an addSequence call that fails, calculateStatistics rejecting an
\* empty or non-list sequence, leaves the store as it was before the call:
\* the same records in the same order, also when it held 10 records, and
\* no observer is notified
C26_FailedAddLeavesStore ==
    [][ AddThrew => (sequences' = sequences /\ notified' = <<>>) ]_vars

-----------------------------------------------------------------------------
\* C27: importFromJSON never leaves the store holding more than
\* maxSequences (10) records: after any sequence of store operations that
\* includes importFromJSON the capacity bound still holds
C27_ImportKeepsCapacity == Len(sequences) <= maxSequences

-----------------------------------------------------------------------------
\* the record of a sequence, as far as the conditions of the catalog read
\* it; detectPatterns assigns a tag exactly when its condition holds
RecordRead(seq) == [sequence |-> seq, statistics |-> calculateStatistics(seq)]

\* C28: the elements of a sequence generateSequence returns that ends in 1
\* are pairwise distinct; so findCycles returns the empty list for it and
\* the 'Cyclic' tag is never assigned to it
C28_NoRepeats ==
    (gpc = "returned" /\ Last(sequence) = 1) =>
        /\ \A i, j \in 1..Len(sequence) : sequence[i] = sequence[j] => i = j
        /\ findCycles(sequence) = <<>>
        /\ ~hasCyclicPattern(sequence)
        /\ ~PatternCondition("Cyclic", RecordRead(sequence))

\* generateSequence(27) has returned its 112 elements, the last of them 1
C28_Witness ==
    /\ gpc = "returned"
    /\ StartValue = 27
    /\ Last(sequence) = 1
    /\ Len(sequence) = 112

-----------------------------------------------------------------------------
\* the lengths of the sequences the analyzer holds
HeldLengths == [i \in 1..Len(analyzerSequences) |-> analyzerSequences[i].statistics.length]

\* C30: after any addSequence, removeSequence and clearSequences calls the
\* analyzer's cached statistics agree with the sequences it holds: they are
\* the empty object exactly when it holds none, and otherwise
\* totalSequences is the number held and minLength <= averageLength <=
\* maxLength are the least, mean and greatest length; so a report never
\* carries a statistics.totalSequences other than its totalSequences
C30_StatisticsAgree ==
    /\ analyzerStatistics = EmptyObject <=> Len(analyzerSequences) = 0
    /\ Len(analyzerSequences) > 0 =>
          /\ analyzerStatistics.totalSequences = Len(analyzerSequences)
          /\ \E i \in 1..Len(HeldLengths) : HeldLengths[i] = analyzerStatistics.minLength
          /\ \A i \in 1..Len(HeldLengths) : analyzerStatistics.minLength <= HeldLengths[i]
          /\ \E i \in 1..Len(HeldLengths) : HeldLengths[i] = analyzerStatistics.maxLength
          /\ \A i \in 1..Len(HeldLengths) : HeldLengths[i] <= analyzerStatistics.maxLength
          /\ analyzerStatistics.averageLength = <<SumOf(HeldLengths), Len(HeldLengths)>>
          /\ analyzerStatistics.minLength * Len(HeldLengths)
                <= analyzerStatistics.averageLength[1]
          /\ analyzerStatistics.averageLength[1]
                <= analyzerStatistics.maxLength * Len(HeldLengths)
    /\ (lastQuery.op = "exportComparisonData" /\ lastQuery.format \in {"json", "undefined"}) =>
          LET report == lastQuery.result.json
          IN  /\ report.totalSequences = Len(analyzerSequences)
              /\ report.statistics = analyzerStatistics
              /\ report.totalSequences = 0 => report.statistics = EmptyObject
              /\ report.totalSequences > 0 =>
                    report.statistics.totalSequences = report.totalSequences

\* a report was made after a sequence was removed and others were left
C30_Witness ==
    /\ lastQuery.op = "exportComparisonData"
    /\ lastQuery.format = "json"
    /\ Len(analyzerSequences) >= 2
    /\ supplied > Len(analyzerSequences)
    /\ analyzerStatistics.minLength < analyzerStatistics.maxLength

=============================================================================
